---- MODULE Spec2Model ----
(***************************************************************************)
(* The to-do backend (Hono routes over a key-value store or a process      *)
(* global list).  The repository holds several variants of the server:     *)
(*   "strict"   src/src/server.ts 1-220    UUID ids, store errors rethrown  *)
(*   "numeric"  src/src/server.ts 222-374  Date.now() ids, errors swallowed *)
(*   "lenient"  src/unnamed/part_000       UUID ids, store errors swallowed *)
(*   "simple"   src/unnamed/part_001       in-memory list, GET and POST     *)
(* The file-mirrored variant (src/src/server.ts 376-599) has the routes of  *)
(* "strict" with 400 in place of 500 and is not modelled separately.        *)
(*                                                                          *)
(* A handler is cut at its awaits on the store: Begin (body parsing,        *)
(* validation, the synchronous part of getTasks), Got (the read has         *)
(* happened; lookup, mutation, the call of saveTasks), Put (the write has   *)
(* happened; the response).  Arrays are objects of a heap, so that the     *)
(* list a handler mutates may or may not be the list that is stored.        *)
(*                                                                          *)
(* SpecSeq handles requests one after another, with any body and any store  *)
(* outcome; Spec lets two well-formed requests overlap at their awaits.     *)
(***************************************************************************)
EXTENDS Integers, Sequences, FiniteSets, TLC

\* ---------------------------------------------------------------- bounds
MaxTasks == 2       \* longest list a create leaves behind
MaxUuid == 2        \* number of random UUIDs drawn
MaxClock == 4       \* last value of the millisecond clock
MaxRequests == 3    \* number of requests accepted while requests may overlap

Reqs == {1, 2}      \* request slots: at most two requests in flight
ModuleList == 0     \* heap address of the module-level array
Refs == {ModuleList} \cup Reqs
NoRef == ModuleList - 1     \* a handler's `tasks` before it is assigned
NaN == -1                   \* an id no record has

\* ------------------------------------------------------------ JS values
Undefined == [t |-> "undefined"]
Str(s) == [t |-> "string", v |-> s]
Num(n) == [t |-> "number", v |-> n]
Bool(b) == [t |-> "boolean", v |-> b]

\* String.prototype.trim on a sequence of characters
RECURSIVE TrimStart(_)
TrimStart(s) == IF s # <<>> /\ Head(s) = " " THEN TrimStart(Tail(s)) ELSE s

RECURSIVE TrimEnd(_)
TrimEnd(s) ==
  IF s # <<>> /\ s[Len(s)] = " " THEN TrimEnd(SubSeq(s, 1, Len(s) - 1)) ELSE s

Trim(s) == TrimEnd(TrimStart(s))

\* ToBoolean: what `!x` and Boolean(x) see
Truthy(x) ==
  CASE x.t = "undefined" -> FALSE
    [] x.t = "string" -> x.v # <<>>
    [] x.t = "number" -> x.v # 0
    [] x.t = "boolean" -> x.v

\* the create route's test, negated:
\*   !body.task || typeof body.task !== 'string' || body.task.trim() === ''
ValidNewTask(x) ==
  ~(~Truthy(x) \/ x.t # "string" \/ Trim(x.v) = <<>>)

\* the update route's test, negated:
\*   typeof body.task !== 'string' || body.task.trim() === ''
ValidTaskField(x) == ~(x.t # "string" \/ Trim(x.v) = <<>>)

\* ------------------------------------------------------------ request inputs
BadBody == [kind |-> "bad"]     \* a body that c.req.json() rejects
Body(t, c) == [kind |-> "object", task |-> t, completed |-> c]

OnlyCompleted == Body(Undefined, Bool(TRUE))          \* {completed: true}
TaskAndBadCompleted == Body(Str(<<" ", "b", " ">>), Str(<<"y">>))
                                                      \* {task: " b ", completed: "y"}
ValidPost == Body(Str(<<" ", "a", " ">>), Undefined)  \* {task: " a "}

TaskInputs == {Undefined, Num(123), Str(<<>>), Str(<<" ">>)}

PostBodies == {Body(t, Undefined) : t \in TaskInputs} \cup {ValidPost, BadBody}

PutBodies ==
  { OnlyCompleted, Body(Undefined, Bool(FALSE)),
    Body(Str(<<" ", "b", " ">>), Undefined), Body(Str(<<" ">>), Undefined),
    TaskAndBadCompleted, BadBody }

\* the :id segment: the text of an id, optionally followed by other characters
Param(n, tail) == [n |-> n, tail |-> tail]

NoParam == Param(NaN, FALSE)

NoReq == [method |-> "none"]
NoResp == [status |-> 0]
Null == [json |-> "null"]

VARIABLES
  mode,         \* how requests arrive: "sequential" or "overlapping"
  variant,      \* which server file runs
  hasKV,        \* c.env.TODO_KV is bound
  kv,           \* the value under key 'tasks' of the KV namespace, or Null
  localTasks,   \* `let localTasks` / `const tasks`: a heap address
  heap,         \* the arrays: address -> list of task records
  now,          \* Date.now()
  nextUuid,     \* number of UUIDs drawn so far
  pc,           \* per slot: "idle", "get", "put", "done"
  req,          \* per slot: the request being handled
  newTask,      \* per slot: the handler's `newTask`
  tasks,        \* per slot: the handler's `tasks` (a heap address)
  resp,         \* per slot: the response sent
  before,       \* history: the stored list when the request began
  io,           \* history: outcome of the request's store read and write; for a
                \* DELETE, whether its :id is lastDeleted
  taskIndex,    \* per slot: the handler's `taskIndex`
  deletedTask,  \* per slot: the handler's `deletedTask`
  base,         \* history: the list the request's getTasks returned
  lastWriter,   \* history: the open slot that did the last successful KV put, or 0
  expected,     \* history: ids answered 201, less those a DELETE answered with 200
  lastDeleted,  \* history: :id of the last DELETE answered 200, no create since
  accepted,     \* history: number of requests accepted while requests may overlap
  answered      \* history: what was answered 200/201 while requests may overlap:
                \* <<"created", id, TRUE>>, <<"removed", id, TRUE>>,
                \* <<"completed", id, value>>, <<"task", id, text>>

vars ==
  << mode, variant, hasKV, kv, localTasks, heap, now, nextUuid, pc, req, newTask,
     tasks, taskIndex, deletedTask, resp, before, io, base, lastWriter,
     expected, lastDeleted, accepted, answered >>

\* ------------------------------------------------------------ helpers
\* JSON.stringify / JSON.parse of a task list.  Every field of a record the
\* KV routes store is a string, a number or a boolean, which the text keeps;
\* the text is a value of its own, and an absent key reads as Null.
JSONstringify(list) == [json |-> list]

JSONparse(text) == text.json

\* the list the next GET would read
Stored == IF hasKV THEN (IF kv # Null THEN JSONparse(kv) ELSE <<>>) ELSE heap[localTasks]

ThrowsOnStoreError == variant = "strict"

\* status of the routes' catch block
CatchStatus == IF variant = "strict" THEN 500 ELSE 400

\* crypto.randomUUID() / Date.now()
generateId == IF variant = "numeric" THEN now ELSE nextUuid + 1

\* (mutant: an id no record has finds the last record)
FindIndex_LastWhenAbsent(list, id) ==
  IF \E i \in 1..Len(list) : list[i].id = id
  THEN (CHOOSE i \in 1..Len(list) :
          list[i].id = id /\ \A j \in 1..(i - 1) : list[j].id # id) - 1
  ELSE Len(list) - 1

\* Array.prototype.findIndex(task => task.id === id): 0-based, -1 when absent
FindIndex(list, id) ==
  IF \E i \in 1..Len(list) : list[i].id = id
  THEN (CHOOSE i \in 1..Len(list) :
          list[i].id = id /\ \A j \in 1..(i - 1) : list[j].id # id) - 1
  ELSE -1

\* tasks.push(x)
Push(list, x) == Append(list, x)

\* tasks.splice(i, 1): the list left behind
Splice(list, i) == SubSeq(list, 1, i) \o SubSeq(list, i + 2, Len(list))

\* the id the route looks up: c.req.param('id'), parseInt'ed in "numeric"
\* (parseInt reads the leading digits and ignores what follows them; a UUID
\* text followed by other characters is the text of no id)
ParsedId(p) ==
  IF variant = "numeric" THEN p.n
  ELSE IF p.tail THEN NaN ELSE p.n

\* part_001's `const tasks = [...]`
InitialTasks ==
  << [id |-> 1, task |-> Str(<<"a">>)], [id |-> 2, task |-> Str(<<"b">>)] >>

\* Date.now() when the process starts: later than both ids of InitialTasks
ClockStart == Len(InitialTasks) + 1

\* the ids a run can draw, and the :id texts requests carry: each id's text,
\* and the first id's text followed by other characters
Ids == IF variant = "numeric" THEN ClockStart..MaxClock ELSE 1..MaxUuid

Params ==
  {Param(n, FALSE) : n \in Ids} \cup
  {Param(CHOOSE n \in Ids : \A m \in Ids : n <= m, TRUE)}

\* ------------------------------------------------------------ the store
\* (mutant: a failed read that is not rethrown yields the stored list)
getTasks_StoredOnFailure(r, ok) ==
  IF hasKV
  THEN IF ok \/ ~ThrowsOnStoreError
       THEN [threw |-> FALSE, ref |-> r,
             heap |-> [heap EXCEPT ![r] = IF kv # Null THEN JSONparse(kv) ELSE <<>>]]
       ELSE [threw |-> TRUE, ref |-> NoRef, heap |-> heap]
  ELSE [threw |-> FALSE, ref |-> localTasks, heap |-> heap]

\* (mutant: without KV the handler gets a copy of the module's list)
getTasks_CopyOfLocal(r, ok) ==
  IF hasKV
  THEN IF ok
       THEN [threw |-> FALSE, ref |-> r,
             heap |-> [heap EXCEPT ![r] = IF kv # Null THEN JSONparse(kv) ELSE <<>>]]
       ELSE IF ThrowsOnStoreError
            THEN [threw |-> TRUE, ref |-> NoRef, heap |-> heap]
            ELSE [threw |-> FALSE, ref |-> r, heap |-> [heap EXCEPT ![r] = <<>>]]
  ELSE [threw |-> FALSE, ref |-> r, heap |-> [heap EXCEPT ![r] = heap[localTasks]]]

\* getTasks(c) called by slot r; ok: the KV read succeeds.  The result names
\* the array the handler gets and the heap once that array exists.
getTasks(r, ok) ==
  IF hasKV
  THEN IF ok
       THEN [threw |-> FALSE, ref |-> r,
             heap |-> [heap EXCEPT ![r] = IF kv # Null THEN JSONparse(kv) ELSE <<>>]]
       ELSE IF ThrowsOnStoreError
            THEN [threw |-> TRUE, ref |-> NoRef, heap |-> heap]
            ELSE [threw |-> FALSE, ref |-> r, heap |-> [heap EXCEPT ![r] = <<>>]]
  ELSE [threw |-> FALSE, ref |-> localTasks, heap |-> heap]

\* (mutant: the write adds the array's last element to what is stored)
saveTasks_AppendsLast(h, ref, ok) ==
  IF hasKV
  THEN IF ok
       THEN [threw |-> FALSE,
             kv |-> JSONstringify(
                      (IF kv # Null THEN JSONparse(kv) ELSE <<>>) \o
                      (IF h[ref] = <<>> THEN <<>> ELSE << h[ref][Len(h[ref])] >>)),
             localTasks |-> localTasks]
       ELSE [threw |-> ThrowsOnStoreError, kv |-> kv, localTasks |-> localTasks]
  ELSE [threw |-> FALSE, kv |-> kv, localTasks |-> ref]

\* saveTasks(c, tasks) with tasks the array at ref of heap h; ok: the KV write
\* succeeds.  The result is the store afterwards.
saveTasks(h, ref, ok) ==
  IF hasKV
  THEN IF ok
       THEN [threw |-> FALSE, kv |-> JSONstringify(h[ref]), localTasks |-> localTasks]
       ELSE [threw |-> ThrowsOnStoreError, kv |-> kv, localTasks |-> localTasks]
  ELSE [threw |-> FALSE, kv |-> kv, localTasks |-> ref]

Init ==
  /\ mode \in {"sequential", "overlapping"}
  /\ variant \in {"strict", "numeric", "lenient", "simple"}
  /\ hasKV \in BOOLEAN
  /\ variant = "numeric" => hasKV
  /\ variant = "simple" => ~hasKV
  /\ kv = Null
  /\ localTasks = ModuleList
  /\ heap = [a \in Refs |->
               IF a = ModuleList /\ variant = "simple" THEN InitialTasks ELSE <<>>]
  /\ now = ClockStart
  /\ nextUuid = 0
  /\ pc = [r \in Reqs |-> "idle"]
  /\ req = [r \in Reqs |-> NoReq]
  /\ newTask = [r \in Reqs |-> Undefined]
  /\ tasks = [r \in Reqs |-> NoRef]
  /\ taskIndex = [r \in Reqs |-> -1]
  /\ deletedTask = [r \in Reqs |-> Undefined]
  /\ resp = [r \in Reqs |-> NoResp]
  /\ before = [r \in Reqs |-> <<>>]
  /\ io = [r \in Reqs |-> [read |-> "none", write |-> "none", again |-> FALSE]]
  /\ base = [r \in Reqs |-> <<>>]
  /\ lastWriter = 0
  /\ expected = <<>>
  /\ lastDeleted = NoParam
  /\ accepted = 0
  /\ answered = {}

config == << mode, variant, hasKV >>
locals == << newTask, tasks, taskIndex, deletedTask >>
history == << before, io, base, lastWriter, expected, lastDeleted >>

Response(s, d) == [status |-> s, data |-> d]

\* outcome of an awaited store call, as the history records it
Outcome(ok) == IF ~hasKV THEN "none" ELSE IF ok THEN "ok" ELSE "fail"

\* number of creates past validation and not yet answered
Creating == Cardinality({q \in Reqs : pc[q] \in {"get", "put"} /\ req[q].method = "POST"})

\* requests are handled one after another in the first slot, or overlap at
\* their awaits; MaxRequests requests are accepted while they may overlap
First == CHOOSE r \in Reqs : \A q \in Reqs : r <= q

Admit(r) ==
  /\ pc[r] = "idle"
  /\ IF mode = "sequential" THEN r = First ELSE accepted < MaxRequests

Accepted == IF mode = "sequential" THEN accepted ELSE accepted + 1

\* what the request of slot r stands for once it is answered 200/201
Effects(r) ==
  CASE req[r].method = "POST" -> {<< "created", newTask[r].id, TRUE >>}
    [] req[r].method = "DELETE" -> {<< "removed", deletedTask[r].id, TRUE >>}
    [] req[r].method = "PUT" ->
         LET b == req[r].body
             id == ParsedId(req[r].param)
         IN (IF b.completed # Undefined
             THEN {<< "completed", id,
                      IF variant = "numeric" THEN Truthy(b.completed)
                      ELSE b.completed.v >>}
             ELSE {}) \cup
            (IF b.task # Undefined
             THEN {<< "task", id, Str(Trim(b.task.v)) >>}
             ELSE {})

Answered(r, status) ==
  IF mode = "overlapping" /\ status \in {200, 201}
  THEN answered \cup Effects(r)
  ELSE answered

\* the millisecond clock advances
Tick ==
  /\ now < MaxClock
  /\ now' = now + 1
  /\ UNCHANGED << config, kv, localTasks, heap, nextUuid, pc, req, locals, resp, history >>
  /\ UNCHANGED accepted
  /\ UNCHANGED answered

\* ------------------------------------------------------------ POST /api/todos
\* up to `await getTasks(c)`
PostBegin(r, b) ==
  /\ variant # "simple"
  /\ Admit(r)
  /\ Len(Stored) + Creating < MaxTasks
  /\ Len(expected) + Creating < MaxTasks + 1
  /\ variant # "numeric" => nextUuid < MaxUuid
  /\ req' = [req EXCEPT ![r] = [method |-> "POST", param |-> NoParam, body |-> b]]
  /\ before' = [before EXCEPT ![r] = Stored]
  /\ IF b = BadBody \/ ~ValidNewTask(b.task)
     THEN /\ pc' = [pc EXCEPT ![r] = "done"]
          /\ resp' = [resp EXCEPT ![r] =
                        Response(IF b = BadBody THEN CatchStatus ELSE 400, Undefined)]
          /\ UNCHANGED << newTask, tasks, heap, nextUuid >>
     ELSE /\ newTask' = [newTask EXCEPT ![r] =
                           [id |-> generateId, task |-> Str(Trim(b.task.v)),
                            completed |-> FALSE, createdAt |-> now]]
          /\ nextUuid' = IF variant = "numeric" THEN nextUuid ELSE nextUuid + 1
          /\ tasks' = IF hasKV THEN tasks
                      ELSE [tasks EXCEPT ![r] = getTasks(r, TRUE).ref]
          /\ heap' = IF hasKV THEN heap ELSE getTasks(r, TRUE).heap
          /\ pc' = [pc EXCEPT ![r] = "get"]
          /\ UNCHANGED resp
  /\ UNCHANGED << config, kv, localTasks, now, taskIndex, deletedTask,
                  io, base, lastWriter, expected, lastDeleted >>
  /\ accepted' = Accepted
  /\ UNCHANGED answered

\* getTasks has returned or thrown; tasks.push(newTask); saveTasks is called
PostGot(r, ok) ==
  /\ pc[r] = "get" /\ req[r].method = "POST"
  /\ ~hasKV => ok
  /\ LET g == IF hasKV THEN getTasks(r, ok)
              ELSE [threw |-> FALSE, ref |-> tasks[r], heap |-> heap]
     IN /\ io' = [io EXCEPT ![r].read = Outcome(ok)]
        /\ IF g.threw
           THEN /\ pc' = [pc EXCEPT ![r] = "done"]
                /\ resp' = [resp EXCEPT ![r] = Response(CatchStatus, Undefined)]
                /\ UNCHANGED << heap, tasks, localTasks, base >>
           ELSE LET h == [g.heap EXCEPT ![g.ref] = Push(@, newTask[r])]
                IN /\ heap' = h
                   /\ tasks' = [tasks EXCEPT ![r] = g.ref]
                   /\ base' = [base EXCEPT ![r] = g.heap[g.ref]]
                   /\ localTasks' = IF hasKV THEN localTasks
                                     ELSE saveTasks(h, g.ref, TRUE).localTasks
                   /\ pc' = [pc EXCEPT ![r] = "put"]
                   /\ UNCHANGED resp
  /\ UNCHANGED << config, kv, now, nextUuid, req, newTask, taskIndex, deletedTask,
                  before, lastWriter, expected, lastDeleted >>
  /\ UNCHANGED accepted
  /\ UNCHANGED answered

\* saveTasks has returned or thrown; the response
PostPut(r, ok) ==
  /\ pc[r] = "put" /\ req[r].method = "POST"
  /\ ~hasKV => ok
  /\ LET s == IF hasKV THEN saveTasks(heap, tasks[r], ok)
              ELSE [threw |-> FALSE, kv |-> kv, localTasks |-> localTasks]
     IN /\ io' = [io EXCEPT ![r].write = Outcome(ok)]
        /\ kv' = s.kv
        /\ lastWriter' = IF hasKV /\ ok THEN r ELSE lastWriter
        /\ pc' = [pc EXCEPT ![r] = "done"]
        /\ IF s.threw
           THEN /\ resp' = [resp EXCEPT ![r] = Response(CatchStatus, Undefined)]
                /\ UNCHANGED << expected, lastDeleted >>
           ELSE /\ resp' = [resp EXCEPT ![r] = Response(201, newTask[r])]
                /\ expected' = Append(expected, newTask[r].id)
                /\ lastDeleted' = NoParam
  /\ UNCHANGED << config, localTasks, heap, now, nextUuid, req, locals, before, base >>
  /\ UNCHANGED accepted
  /\ answered' = Answered(r, resp'[r].status)

\* ------------------------------------------------------------ PUT /api/todos/:id
\* body.task is given and fails the test: 400 before anything is assigned
TaskRejected(b) == b.task # Undefined /\ ~ValidTaskField(b.task)

\* tasks[taskIndex].task = body.task.trim(), when body.task is given
ApplyTask(list, i, b) ==
  IF b.task # Undefined
  THEN [list EXCEPT ![i + 1].task = Str(Trim(b.task.v))]
  ELSE list

\* body.completed is given and is no boolean: 400 ("numeric" has no such test)
CompletedRejected(b) ==
  variant # "numeric" /\ b.completed # Undefined /\ b.completed.t # "boolean"

\* (mutant: the record is rebuilt from id, task and completed)
ApplyCompleted_Rebuilds(list, i, b) ==
  IF b.completed # Undefined
  THEN [list EXCEPT ![i + 1] =
          [id |-> @.id, task |-> @.task,
           completed |-> IF variant = "numeric" THEN Truthy(b.completed)
                         ELSE b.completed.v]]
  ELSE list

\* tasks[taskIndex].completed = body.completed, Boolean(body.completed) in "numeric"
ApplyCompleted(list, i, b) ==
  IF b.completed # Undefined
  THEN [list EXCEPT ![i + 1].completed =
          IF variant = "numeric" THEN Truthy(b.completed) ELSE b.completed.v]
  ELSE list

\* up to `await getTasks(c)`
PutBegin(r, p, b) ==
  /\ variant # "simple"
  /\ Admit(r)
  /\ req' = [req EXCEPT ![r] = [method |-> "PUT", param |-> p, body |-> b]]
  /\ before' = [before EXCEPT ![r] = Stored]
  /\ IF b = BadBody
     THEN /\ pc' = [pc EXCEPT ![r] = "done"]
          /\ resp' = [resp EXCEPT ![r] = Response(CatchStatus, Undefined)]
          /\ UNCHANGED << tasks, heap >>
     ELSE /\ tasks' = IF hasKV THEN tasks
                      ELSE [tasks EXCEPT ![r] = getTasks(r, TRUE).ref]
          /\ heap' = IF hasKV THEN heap ELSE getTasks(r, TRUE).heap
          /\ pc' = [pc EXCEPT ![r] = "get"]
          /\ UNCHANGED resp
  /\ UNCHANGED << config, kv, localTasks, now, nextUuid, newTask, taskIndex,
                  deletedTask, io, base, lastWriter, expected, lastDeleted >>
  /\ accepted' = Accepted
  /\ UNCHANGED answered

\* getTasks has returned or thrown; findIndex, the two field updates, and
\* the call of saveTasks
PutGot(r, ok) ==
  /\ pc[r] = "get" /\ req[r].method = "PUT"
  /\ ~hasKV => ok
  /\ LET g == IF hasKV THEN getTasks(r, ok)
              ELSE [threw |-> FALSE, ref |-> tasks[r], heap |-> heap]
         b == req[r].body
     IN /\ io' = [io EXCEPT ![r].read = Outcome(ok)]
        /\ IF g.threw
           THEN /\ pc' = [pc EXCEPT ![r] = "done"]
                /\ resp' = [resp EXCEPT ![r] = Response(CatchStatus, Undefined)]
                /\ UNCHANGED << heap, tasks, localTasks, base, taskIndex >>
           ELSE LET list == g.heap[g.ref]
                    i == FindIndex(list, ParsedId(req[r].param))
                    l1 == ApplyTask(list, i, b)
                    l2 == ApplyCompleted(l1, i, b)
                IN /\ tasks' = [tasks EXCEPT ![r] = g.ref]
                   /\ base' = [base EXCEPT ![r] = list]
                   /\ taskIndex' = [taskIndex EXCEPT ![r] = i]
                   /\ IF i = -1
                      THEN /\ pc' = [pc EXCEPT ![r] = "done"]
                           /\ resp' = [resp EXCEPT ![r] = Response(404, Undefined)]
                           /\ heap' = g.heap
                           /\ UNCHANGED localTasks
                      ELSE IF TaskRejected(b)
                      THEN /\ pc' = [pc EXCEPT ![r] = "done"]
                           /\ resp' = [resp EXCEPT ![r] = Response(400, Undefined)]
                           /\ heap' = g.heap
                           /\ UNCHANGED localTasks
                      ELSE IF CompletedRejected(b)
                      THEN /\ pc' = [pc EXCEPT ![r] = "done"]
                           /\ resp' = [resp EXCEPT ![r] = Response(400, Undefined)]
                           /\ heap' = [g.heap EXCEPT ![g.ref] = l1]
                           /\ UNCHANGED localTasks
                      ELSE LET h == [g.heap EXCEPT ![g.ref] = l2]
                           IN /\ heap' = h
                              /\ localTasks' = IF hasKV THEN localTasks
                                                ELSE saveTasks(h, g.ref, TRUE).localTasks
                              /\ pc' = [pc EXCEPT ![r] = "put"]
                              /\ UNCHANGED resp
  /\ UNCHANGED << config, kv, now, nextUuid, req, newTask, deletedTask,
                  before, lastWriter, expected, lastDeleted >>
  /\ UNCHANGED accepted
  /\ UNCHANGED answered

\* the element the handler sends: tasks[taskIndex], read after the await
ElementAt(list, i) == IF i + 1 \in 1..Len(list) THEN list[i + 1] ELSE Undefined

\* saveTasks has returned or thrown; the response
PutPut(r, ok) ==
  /\ pc[r] = "put" /\ req[r].method = "PUT"
  /\ ~hasKV => ok
  /\ LET s == IF hasKV THEN saveTasks(heap, tasks[r], ok)
              ELSE [threw |-> FALSE, kv |-> kv, localTasks |-> localTasks]
     IN /\ io' = [io EXCEPT ![r].write = Outcome(ok)]
        /\ kv' = s.kv
        /\ lastWriter' = IF hasKV /\ ok THEN r ELSE lastWriter
        /\ pc' = [pc EXCEPT ![r] = "done"]
        /\ resp' = [resp EXCEPT ![r] =
                      IF s.threw THEN Response(CatchStatus, Undefined)
                      ELSE Response(200, ElementAt(heap[tasks[r]], taskIndex[r]))]
  /\ UNCHANGED << config, localTasks, heap, now, nextUuid, req, locals, before,
                  base, expected, lastDeleted >>
  /\ UNCHANGED accepted
  /\ answered' = Answered(r, resp'[r].status)

\* ------------------------------------------------------------ DELETE /api/todos/:id
\* up to `await getTasks(c)`
DeleteBegin(r, p) ==
  /\ variant # "simple"
  /\ Admit(r)
  /\ req' = [req EXCEPT ![r] = [method |-> "DELETE", param |-> p, body |-> BadBody]]
  /\ before' = [before EXCEPT ![r] = Stored]
  /\ io' = [io EXCEPT ![r].again = (p = lastDeleted)]
  /\ tasks' = IF hasKV THEN tasks ELSE [tasks EXCEPT ![r] = getTasks(r, TRUE).ref]
  /\ heap' = IF hasKV THEN heap ELSE getTasks(r, TRUE).heap
  /\ pc' = [pc EXCEPT ![r] = "get"]
  /\ UNCHANGED << config, kv, localTasks, now, nextUuid, newTask, taskIndex,
                  deletedTask, resp, base, lastWriter, expected, lastDeleted >>
  /\ accepted' = Accepted
  /\ UNCHANGED answered

\* getTasks has returned or thrown; findIndex, splice, the call of saveTasks
DeleteGot(r, ok) ==
  /\ pc[r] = "get" /\ req[r].method = "DELETE"
  /\ ~hasKV => ok
  /\ LET g == IF hasKV THEN getTasks(r, ok)
              ELSE [threw |-> FALSE, ref |-> tasks[r], heap |-> heap]
     IN /\ io' = [io EXCEPT ![r].read = Outcome(ok)]
        /\ IF g.threw
           THEN /\ pc' = [pc EXCEPT ![r] = "done"]
                /\ resp' = [resp EXCEPT ![r] = Response(CatchStatus, Undefined)]
                /\ UNCHANGED << heap, tasks, localTasks, base, taskIndex, deletedTask >>
           ELSE LET list == g.heap[g.ref]
                    i == FindIndex(list, ParsedId(req[r].param))
                IN /\ tasks' = [tasks EXCEPT ![r] = g.ref]
                   /\ base' = [base EXCEPT ![r] = list]
                   /\ taskIndex' = [taskIndex EXCEPT ![r] = i]
                   /\ IF i = -1
                      THEN /\ pc' = [pc EXCEPT ![r] = "done"]
                           /\ resp' = [resp EXCEPT ![r] = Response(404, Undefined)]
                           /\ heap' = g.heap
                           /\ UNCHANGED << localTasks, deletedTask >>
                      ELSE LET h == [g.heap EXCEPT ![g.ref] = Splice(list, i)]
                           IN /\ deletedTask' = [deletedTask EXCEPT ![r] = list[i + 1]]
                              /\ heap' = h
                              /\ localTasks' = IF hasKV THEN localTasks
                                                ELSE saveTasks(h, g.ref, TRUE).localTasks
                              /\ pc' = [pc EXCEPT ![r] = "put"]
                              /\ UNCHANGED resp
  /\ UNCHANGED << config, kv, now, nextUuid, req, newTask,
                  before, lastWriter, expected, lastDeleted >>
  /\ UNCHANGED accepted
  /\ UNCHANGED answered

\* history: the list without the first occurrence of x
RemoveFirst(list, x) ==
  IF \E i \in 1..Len(list) : list[i] = x
  THEN LET i == CHOOSE k \in 1..Len(list) :
                  list[k] = x /\ \A j \in 1..(k - 1) : list[j] # x
       IN SubSeq(list, 1, i - 1) \o SubSeq(list, i + 1, Len(list))
  ELSE list

\* saveTasks has returned or thrown; the response
DeletePut(r, ok) ==
  /\ pc[r] = "put" /\ req[r].method = "DELETE"
  /\ ~hasKV => ok
  /\ LET s == IF hasKV THEN saveTasks(heap, tasks[r], ok)
              ELSE [threw |-> FALSE, kv |-> kv, localTasks |-> localTasks]
     IN /\ io' = [io EXCEPT ![r].write = Outcome(ok)]
        /\ kv' = s.kv
        /\ lastWriter' = IF hasKV /\ ok THEN r ELSE lastWriter
        /\ pc' = [pc EXCEPT ![r] = "done"]
        /\ IF s.threw
           THEN /\ resp' = [resp EXCEPT ![r] = Response(CatchStatus, Undefined)]
                /\ UNCHANGED << expected, lastDeleted >>
           ELSE /\ resp' = [resp EXCEPT ![r] = Response(200, deletedTask[r])]
                /\ expected' = RemoveFirst(expected, deletedTask[r].id)
                /\ lastDeleted' = req[r].param
  /\ UNCHANGED << config, localTasks, heap, now, nextUuid, req, locals, before, base >>
  /\ UNCHANGED accepted
  /\ answered' = Answered(r, resp'[r].status)

\* ------------------------------------------------------------ GET /api/todos
\* up to `await getTasks(c)`
GetBegin(r) ==
  /\ variant # "simple"
  /\ Admit(r)
  /\ req' = [req EXCEPT ![r] = [method |-> "GET", param |-> NoParam, body |-> BadBody]]
  /\ before' = [before EXCEPT ![r] = Stored]
  /\ tasks' = IF hasKV THEN tasks ELSE [tasks EXCEPT ![r] = getTasks(r, TRUE).ref]
  /\ heap' = IF hasKV THEN heap ELSE getTasks(r, TRUE).heap
  /\ pc' = [pc EXCEPT ![r] = "get"]
  /\ UNCHANGED << config, kv, localTasks, now, nextUuid, newTask, taskIndex,
                  deletedTask, resp, io, base, lastWriter, expected, lastDeleted >>
  /\ accepted' = Accepted
  /\ UNCHANGED answered

\* getTasks has returned or thrown; the response
GetGot(r, ok) ==
  /\ pc[r] = "get" /\ req[r].method = "GET"
  /\ ~hasKV => ok
  /\ LET g == IF hasKV THEN getTasks(r, ok)
              ELSE [threw |-> FALSE, ref |-> tasks[r], heap |-> heap]
     IN /\ io' = [io EXCEPT ![r].read = Outcome(ok)]
        /\ pc' = [pc EXCEPT ![r] = "done"]
        /\ IF g.threw
           THEN /\ resp' = [resp EXCEPT ![r] = Response(500, Undefined)]
                /\ UNCHANGED << heap, tasks, base >>
           ELSE /\ resp' = [resp EXCEPT ![r] = Response(200, g.heap[g.ref])]
                /\ heap' = g.heap
                /\ tasks' = [tasks EXCEPT ![r] = g.ref]
                /\ base' = [base EXCEPT ![r] = g.heap[g.ref]]
  /\ UNCHANGED << config, kv, localTasks, now, nextUuid, req, newTask, taskIndex,
                  deletedTask, before, lastWriter, expected, lastDeleted >>
  /\ UNCHANGED accepted
  /\ UNCHANGED answered

\* ------------------------------------------------------------ part_001
\* app.get('/api/todos'): no await, the module's list is sent
SimpleGet(r) ==
  /\ variant = "simple"
  /\ Admit(r)
  /\ req' = [req EXCEPT ![r] = [method |-> "GET", param |-> NoParam, body |-> BadBody]]
  /\ before' = [before EXCEPT ![r] = Stored]
  /\ pc' = [pc EXCEPT ![r] = "done"]
  /\ resp' = [resp EXCEPT ![r] = Response(200, heap[localTasks])]
  /\ UNCHANGED << config, kv, localTasks, heap, now, nextUuid, locals,
                  io, base, lastWriter, expected, lastDeleted >>
  /\ accepted' = Accepted
  /\ UNCHANGED answered

\* app.post('/api/todos'): body.task is stored as it comes; a body that does
\* not parse throws out of the handler (Hono answers 500)
SimplePost(r, b) ==
  /\ variant = "simple"
  /\ Admit(r)
  /\ Len(Stored) < Len(InitialTasks) + MaxTasks
  /\ req' = [req EXCEPT ![r] = [method |-> "POST", param |-> NoParam, body |-> b]]
  /\ before' = [before EXCEPT ![r] = Stored]
  /\ pc' = [pc EXCEPT ![r] = "done"]
  /\ IF b = BadBody
     THEN /\ resp' = [resp EXCEPT ![r] = Response(500, Undefined)]
          /\ UNCHANGED << heap, newTask >>
     ELSE LET t == [id |-> now, task |-> b.task]
          IN /\ newTask' = [newTask EXCEPT ![r] = t]
             /\ heap' = [heap EXCEPT ![localTasks] = Push(@, t)]
             /\ resp' = [resp EXCEPT ![r] = Response(200, t)]
  /\ UNCHANGED << config, kv, localTasks, now, nextUuid, tasks, taskIndex,
                  deletedTask, io, base, lastWriter, expected, lastDeleted >>
  /\ accepted' = Accepted
  /\ UNCHANGED answered

\* ------------------------------------------------------------ the server
\* the response has been sent: the handler's frame and its array, unless it
\* is the stored one, are gone
Close(r) ==
  /\ pc[r] = "done"
  /\ pc' = [pc EXCEPT ![r] = "idle"]
  /\ req' = [req EXCEPT ![r] = NoReq]
  /\ newTask' = [newTask EXCEPT ![r] = Undefined]
  /\ tasks' = [tasks EXCEPT ![r] = NoRef]
  /\ taskIndex' = [taskIndex EXCEPT ![r] = -1]
  /\ deletedTask' = [deletedTask EXCEPT ![r] = Undefined]
  /\ resp' = [resp EXCEPT ![r] = NoResp]
  /\ before' = [before EXCEPT ![r] = <<>>]
  /\ io' = [io EXCEPT ![r] = [read |-> "none", write |-> "none", again |-> FALSE]]
  /\ base' = [base EXCEPT ![r] = <<>>]
  /\ heap' = IF localTasks = r THEN heap ELSE [heap EXCEPT ![r] = <<>>]
  /\ lastWriter' = IF lastWriter = r THEN 0 ELSE lastWriter
  /\ UNCHANGED << config, kv, localTasks, now, nextUuid, expected, lastDeleted >>
  /\ UNCHANGED accepted
  /\ UNCHANGED answered

\* the requests that arrive: any when handled one after another, well-formed
\* ones when they overlap
Posts == IF mode = "sequential" THEN PostBodies ELSE {ValidPost}

Puts ==
  IF mode = "sequential" THEN PutBodies
  ELSE {OnlyCompleted, Body(Str(<<" ", "b", " ">>), Undefined)}

Paths == IF mode = "sequential" THEN Params ELSE {p \in Params : ~p.tail}

Next ==
  \/ Tick
  \/ \E r \in Reqs, b \in Posts : PostBegin(r, b)
  \/ \E r \in Reqs, ok \in BOOLEAN : PostGot(r, ok)
  \/ \E r \in Reqs, ok \in BOOLEAN : PostPut(r, ok)
  \/ \E r \in Reqs, p \in Paths, b \in Puts : PutBegin(r, p, b)
  \/ \E r \in Reqs, ok \in BOOLEAN : PutGot(r, ok)
  \/ \E r \in Reqs, ok \in BOOLEAN : PutPut(r, ok)
  \/ \E r \in Reqs, p \in Paths : DeleteBegin(r, p)
  \/ \E r \in Reqs, ok \in BOOLEAN : DeleteGot(r, ok)
  \/ \E r \in Reqs, ok \in BOOLEAN : DeletePut(r, ok)
  \/ \E r \in Reqs : GetBegin(r)
  \/ \E r \in Reqs, ok \in BOOLEAN : GetGot(r, ok)
  \/ \E r \in Reqs : SimpleGet(r)
  \/ \E r \in Reqs, b \in Posts : SimplePost(r, b)
  \/ \E r \in Reqs : Close(r)

\* requests overlap at their awaits
InitOverlap == Init /\ mode = "overlapping"

Spec == InitOverlap /\ [][Next]_vars

\* requests are handled one after another
InitSeq == Init /\ mode = "sequential"

SpecSeq == InitSeq /\ [][Next]_vars

\* ------------------------------------------------------------ properties
Done(r, m) == pc[r] = "done" /\ req[r].method = m

\* the ids of a list, in order
IdsOf(list) == [i \in 1..Len(list) |-> list[i].id]

\* a `task` that is missing, no string, empty or blank
BlankOrNoString(x) == x.t # "string" \/ \A i \in 1..Len(x.v) : x.v[i] = " "

\* no record of the list has the id the :id text stands for
Unknown(list, p) == \A k \in 1..Len(list) : list[k].id # ParsedId(p)

\* C1: a POST whose body.task is missing, no string, empty or blank is answered
\* 400 and leaves the stored list as it was.
C1_InvalidPostRejected ==
  \A r \in Reqs :
    Done(r, "POST") /\ req[r].body # BadBody /\ BlankOrNoString(req[r].body.task)
      => resp[r].status = 400 /\ Stored = before[r]

\* C2: when a POST is answered 201, the stored list is the list before the
\* request with the returned record appended, and that record has
\* completed = false and the trimmed text.
C2_CreatedIsAppended ==
  \A r \in Reqs :
    Done(r, "POST") /\ resp[r].status = 201
      => /\ Stored = Append(before[r], resp[r].data)
         /\ resp[r].data.completed = FALSE
         /\ resp[r].data.task = Str(Trim(req[r].body.task.v))

\* C3: a PUT answered 200 whose body is {completed: true} leaves the number and
\* order of the records, every other record, and the matched record's id,
\* task and createdAt as they were; the record it returns is the matched
\* record with completed = true, and so is the stored one unless the write
\* failed.
C3_CompletedOnly ==
  \A r \in Reqs :
    Done(r, "PUT") /\ resp[r].status = 200 /\ req[r].body = OnlyCompleted
      => \E i \in 1..Len(before[r]) :
           /\ before[r][i].id = ParsedId(req[r].param)
           /\ \A j \in 1..(i - 1) : before[r][j].id # ParsedId(req[r].param)
           /\ resp[r].data = [before[r][i] EXCEPT !.completed = TRUE]
           /\ Stored = IF io[r].write = "fail" THEN before[r]
                       ELSE [before[r] EXCEPT ![i] = resp[r].data]

C3_Witness ==
  \E r \in Reqs :
    /\ Done(r, "PUT") /\ resp[r].status = 200 /\ req[r].body = OnlyCompleted
    /\ Len(before[r]) = 2 /\ Stored # before[r]
    /\ resp[r].data.task = Str(<<"b">>)

\* C4 as claimed: a PUT or DELETE whose id matches no stored record is answered
\* 404 and leaves the stored list as it was.
C4_UnknownIdIs404 ==
  \A r \in Reqs :
    (Done(r, "PUT") \/ Done(r, "DELETE")) /\ Unknown(before[r], req[r].param)
      => resp[r].status = 404 /\ Stored = before[r]

\* C4 as amended: such a request leaves the stored list as it was; it is
\* answered 404, except that a PUT whose body does not parse, and a request
\* whose store read fails where the failure is rethrown, are answered by the
\* catch block (400 or 500).
C4_UnknownIdChangesNothing ==
  \A r \in Reqs :
    (Done(r, "PUT") \/ Done(r, "DELETE")) /\ Unknown(before[r], req[r].param)
      => /\ Stored = before[r]
         /\ IF \/ Done(r, "PUT") /\ req[r].body = BadBody
               \/ variant = "strict" /\ io[r].read = "fail"
            THEN resp[r].status \in {400, 500}
            ELSE resp[r].status = 404

C4_Witness ==
  \E r \in Reqs :
    /\ Done(r, "DELETE") /\ Unknown(before[r], req[r].param)
    /\ resp[r].status = 404 /\ Len(before[r]) = 2 /\ Stored = before[r]

\* C5: a DELETE answered 200 removes exactly the record it returns and keeps
\* the others in order; a DELETE of the :id of the last DELETE answered 200,
\* no create since, whose store read does not fail, is answered 404.
C5_DeleteOnce ==
  \A r \in Reqs :
    Done(r, "DELETE")
      => /\ resp[r].status = 200 =>
              \E i \in 1..Len(before[r]) :
                /\ before[r][i] = resp[r].data
                /\ Stored = SubSeq(before[r], 1, i - 1) \o
                            SubSeq(before[r], i + 1, Len(before[r]))
         /\ io[r].again /\ io[r].read # "fail" => resp[r].status = 404

\* C6: starting from the empty list, a GET answered 200 returns the records
\* whose creation was answered 201, in that order, less those a DELETE
\* answered with 200.
C6_ListIsCreatedLessDeleted ==
  \A r \in Reqs :
    Done(r, "GET") /\ variant # "simple" /\ resp[r].status = 200
      => IdsOf(resp[r].data) = expected

\* C7: no two records of the stored list have the same id.
C7_UniqueIds ==
  \A i, j \in 1..Len(Stored) : i # j => Stored[i].id # Stored[j].id

\* C8: with the KV store, when two creates both read the same list (each read
\* before the other wrote), both wrote and both are answered 201, the stored
\* list is the list they read plus the record of the one that wrote last, and
\* nothing of the other.
C8_LastWriterWins ==
  \A r, q \in Reqs :
    /\ r # q /\ hasKV
    /\ Done(r, "POST") /\ resp[r].status = 201
    /\ Done(q, "POST") /\ resp[q].status = 201
    /\ io[r] = io[q] /\ io[r].read = "ok" /\ io[r].write = "ok"
    /\ base[r] = base[q]
    /\ lastWriter = q
    => Stored = Append(base[q], resp[q].data)

C8_Witness ==
  \E r, q \in Reqs :
    /\ r # q /\ hasKV
    /\ Done(r, "POST") /\ resp[r].status = 201
    /\ Done(q, "POST") /\ resp[q].status = 201
    /\ io[r].write = "ok" /\ io[q].write = "ok"
    /\ Stored = << resp[q].data >>
    /\ resp[r].data.id # resp[q].data.id

\* C9: where a failed KV read is turned into the empty list, a create whose
\* read fails and whose write succeeds is answered 201 and leaves a stored
\* list that holds the new record and nothing else.
C9_FailedReadWipes ==
  \A r \in Reqs :
    /\ Done(r, "POST") /\ hasKV /\ variant \in {"lenient", "numeric"}
    /\ io[r].read = "fail" /\ io[r].write = "ok"
    => resp[r].status = 201 /\ Stored = << resp[r].data >>

C9_Witness ==
  \E r \in Reqs :
    /\ Done(r, "POST") /\ hasKV /\ variant = "lenient"
    /\ io[r].read = "fail" /\ io[r].write = "ok"
    /\ before[r] # <<>> /\ resp[r].status = 201
    /\ \A k \in 1..Len(Stored) : Stored[k] # before[r][1]

\* C10: a PUT answered 400 leaves the stored list as it was.
C10_RejectedPutChangesNothing ==
  \A r \in Reqs : Done(r, "PUT") /\ resp[r].status = 400 => Stored = before[r]

\* no request is between its first store await and its response
Quiet == \A r \in Reqs : pc[r] \in {"idle", "done"}

\* the ids answered with the given kind of effect
AnsweredIds(kind) == {e[2] : e \in {x \in answered : x[1] = kind}}

\* the ids of the stored records
StoredIds == {Stored[k].id : k \in 1..Len(Stored)}

\* C11: without KV (getTasks/saveTasks variants), whatever the interleaving of
\* creates, updates and deletes, every handler holds the module's one list,
\* saveTasks leaves that list in place, and once no request is in flight the
\* list holds exactly one record per id answered 201 and not answered as
\* deleted, each carrying every field value a PUT on its id was answered 200
\* for.
C11_NoLostUpdate ==
  (~hasKV /\ variant # "simple") =>
    /\ localTasks = ModuleList
    /\ \A r \in Reqs : tasks[r] \in {NoRef, ModuleList}
    /\ Quiet =>
         /\ StoredIds = AnsweredIds("created") \ AnsweredIds("removed")
         /\ Len(Stored) = Cardinality(StoredIds)
         /\ \A e \in answered : \A k \in 1..Len(Stored) :
              e[2] = Stored[k].id =>
                /\ e[1] = "completed" => Stored[k].completed = e[3]
                /\ e[1] = "task" => Stored[k].task = e[3]

\* a create and a delete that both began on the same one-record list, both
\* answered (201 and 200), nothing in flight
C11_Witness ==
  /\ ~hasKV /\ variant # "simple" /\ Quiet
  /\ \E r, q \in Reqs :
       /\ r # q
       /\ Done(r, "POST") /\ resp[r].status = 201
       /\ Done(q, "DELETE") /\ resp[q].status = 200
       /\ before[r] = before[q] /\ Len(before[r]) = 1
       /\ Stored = << resp[r].data >>
====
